---- MODULE Spec2Model ----
(***************************************************************************)
(* Model of decode.py: the MIME part extractor of email-samples.           *)
(*                                                                         *)
(* Strings are sequences of one-character strings, so that glob matching,  *)
(* os.path.splitext and str.replace are computed character by character.   *)
(* The output directory is a function from file names to file contents.    *)
(* The recursion of extract_from_message is an explicit stack of pending   *)
(* calls (node, part_boundary); the first element is the call that runs    *)
(* next, which gives the depth-first, document-order traversal of the      *)
(* Python recursion.  An uncaught exception ends the program.              *)
(***************************************************************************)
EXTENDS Integers, Sequences, FiniteSets, TLC

(***************************************************************************)
(* Bounds                                                                  *)
(***************************************************************************)
MaxParts == 12      \* most sibling leaves of one kind under one boundary
MaxGroups == 3      \* most field groups of a message/delivery-status node
MaxRuns == 2        \* how many times main() is run on the same input
MaxLen == 3         \* longest boundary string handed to the sanitizer alone
MaxWrites == 2      \* parts each of two concurrent writers writes

(***************************************************************************)
(* Characters and strings                                                  *)
(***************************************************************************)
\* Python's None, as a value comparable with strings
None == <<"<None>">>

DigitChars == <<"0", "1", "2", "3", "4", "5", "6", "7", "8", "9">>

IsDigit(c) == \E i \in 1..10 : DigitChars[i] = c

RECURSIVE Str(_)
\* str(n) of a non-negative int, as the f-string of line 73 formats file_count
Str(n) == IF n < 10 THEN <<DigitChars[n + 1]>>
          ELSE Str(n \div 10) \o <<DigitChars[(n % 10) + 1]>>

\* how an f-string formats the extension: None prints as the text "None"
Fmt(x) == IF x = None THEN <<"N", "o", "n", "e">> ELSE x

\* str.replace(old, new) for one-character old and new
Replace(s, old, new) == [i \in 1..Len(s) |-> IF s[i] = old THEN new ELSE s[i]]

\* rfc2046_boundary_to_windows without the second replace
rfc2046_boundary_to_windows_ColonOnly(filename) == Replace(filename, ":", "~")

\* lines 23-27
rfc2046_boundary_to_windows(filename) ==
    Replace(Replace(filename, ":", "~"), "?", "$")

\* positions of '.' in p that have a character other than '.' before them
SplitDots(p) == {i \in 1..Len(p) : p[i] = "." /\ \E j \in 1..(i - 1) : p[j] # "."}

LastDot(p) == CHOOSE i \in 1..Len(p) : p[i] = "." /\ \A j \in (i + 1)..Len(p) : p[j] # "."

\* os.path.splitext for a name without directory separators: <<root, ext>>
splitext(p) ==
    IF (\E i \in 1..Len(p) : p[i] = ".") /\ LastDot(p) \in SplitDots(p)
    THEN <<SubSeq(p, 1, LastDot(p) - 1), SubSeq(p, LastDot(p), Len(p))>>
    ELSE <<p, <<>> >>

\* fnmatch of a file name against "[0-9].{glob.escape(filename)}.*" (line 72)
MatchesPart(name, filename) ==
    /\ Len(name) >= Len(filename) + 3
    /\ IsDigit(name[1])
    /\ name[2] = "."
    /\ SubSeq(name, 3, Len(filename) + 2) = filename
    /\ name[Len(filename) + 3] = "."

\* fnmatch of a file name against "*.*"
MatchesGenerated_AnyDot(name) == \E i \in 1..Len(name) : name[i] = "."

\* fnmatch of a file name against "[0-9].*.*" (line 37)
MatchesGenerated(name) ==
    /\ Len(name) >= 3
    /\ IsDigit(name[1])
    /\ name[2] = "."
    /\ \E i \in 3..Len(name) : name[i] = "."

(***************************************************************************)
(* Content types                                                           *)
(***************************************************************************)
\* mimetypes.guess_extension with the added message/delivery-status -> .eml
guess_extension(maintype, subtype) ==
    CASE maintype = "text" /\ subtype = "plain" -> <<".", "t", "x", "t">>
      [] maintype = "text" /\ subtype = "html" -> <<".", "h", "t", "m", "l">>
      [] maintype = "application" /\ subtype = "pdf" -> <<".", "p", "d", "f">>
      [] maintype = "application" /\ subtype = "octet-stream" -> <<".", "b", "i", "n">>
      [] maintype = "message" /\ subtype = "rfc822" -> <<".", "e", "m", "l">>
      [] maintype = "message" /\ subtype = "delivery-status" -> <<".", "e", "m", "l">>
      [] OTHER -> None

(***************************************************************************)
(* Message nodes, as email.message_from_file (policy.default) yields them  *)
(***************************************************************************)
\* get_content_maintype/subtype, is_multipart, get_boundary, is_attachment,
\* get_filename, get_payload (children) and whether the payload is UTF-8
Node(mt, st, mp, b, att, fn, kids, u) ==
    [maintype |-> mt, subtype |-> st, multipart |-> mp, boundary |-> b,
     attachment |-> att, filename |-> fn, children |-> kids, utf8 |-> u]

PlainLeaf == Node("text", "plain", FALSE, None, FALSE, None, <<>>, TRUE)
HtmlLeaf == Node("text", "html", FALSE, None, FALSE, None, <<>>, TRUE)
\* text/html whose decoded payload is not valid UTF-8 (e.g. base64 of latin-1)
BadHtmlLeaf == Node("text", "html", FALSE, None, FALSE, None, <<>>, FALSE)
\* text/rfc822-headers: a content type mimetypes has no extension for
HeadersLeaf == Node("text", "rfc822-headers", FALSE, None, FALSE, None, <<>>, TRUE)
PdfAttachment ==
    Node("application", "pdf", FALSE, None, TRUE, <<"r", ".", "P", "D", "F">>, <<>>, FALSE)
BareAttachment ==
    Node("application", "octet-stream", FALSE, None, TRUE, <<"R">>, <<>>, FALSE)
DottedAttachment ==
    Node("text", "plain", FALSE, None, TRUE, <<"a", ".", "t", ".", "z">>, <<>>, TRUE)
\* Content-Disposition: attachment without a filename parameter
NamelessAttachment ==
    Node("application", "octet-stream", FALSE, None, TRUE, None, <<>>, FALSE)

LeafKinds == {PlainLeaf, HtmlLeaf, BadHtmlLeaf, HeadersLeaf, PdfAttachment,
              BareAttachment, DottedAttachment, NamelessAttachment}

NestKinds == {PlainLeaf, HeadersLeaf, PdfAttachment, DottedAttachment}

\* a multipart/* container: the parser keeps it multipart only with a boundary
Multipart(st, b, kids) == Node("multipart", st, TRUE, b, FALSE, None, kids, TRUE)

\* a message/* node: always parsed as multipart, normally without a boundary
Message(st, b, kids) == Node("message", st, TRUE, b, FALSE, None, kids, TRUE)

BA == <<"a">>
BAT == <<"a", ".", "t">>
BQ == <<"c", ":", "?">>

Boundaries == {BA, BAT, BQ}

Range(lo, n) == [i \in 1..n |-> lo + i - 1]

\* one multipart/mixed root with n sibling leaves of one kind
Flat(b, leaf, n) == <<Multipart("mixed", b, Range(2, n))>> \o [i \in 1..n |-> leaf]

\* a root with boundary b1, a nested multipart with boundary b2, a
\* message/rfc822 subtree that declares no boundary, and a last leaf
Nested(b1, b2, x1, x2, x3) ==
    << Multipart("mixed", b1, <<2, 3, 5, 7>>),
       x1,
       Multipart("alternative", b2, <<4>>),
       x2,
       Message("rfc822", None, <<6>>),
       x3,
       PlainLeaf >>

\* a delivery report: text, message/delivery-status with k groups, a third part
Report(b, k, third) ==
    << Multipart("report", b, <<2, 3, 4 + k>>),
       PlainLeaf,
       Message("delivery-status", None, Range(4, k)) >>
    \o [i \in 1..k |-> PlainLeaf] \o <<third>>

\* a message that is a single part, or a bare message/* at the root
RootLeaf(leaf) == <<leaf>>

RootMessage(st, k) == <<Message(st, None, Range(2, k))>> \o [i \in 1..k |-> PlainLeaf]

\* attachments that are containers: a multipart/alternative attachment and a
\* message/rfc822 attachment that carries a boundary parameter of its own
Attached(b) ==
    << Multipart("mixed", b, <<2, 4, 6>>),
       Node("multipart", "alternative", TRUE, BQ, TRUE, <<"r", ".", "P", "D", "F">>, <<3>>, TRUE),
       HtmlLeaf,
       Node("message", "rfc822", TRUE, BAT, TRUE, <<"m", ".", "e", "m", "l">>, <<5>>, TRUE),
       PdfAttachment,
       PlainLeaf >>

Trees ==
    {Flat(b, leaf, n) : b \in {BA, BQ}, leaf \in LeafKinds, n \in 1..MaxParts}
    \cup {Nested(bb[1], bb[2], x1, x2, x3) :
            bb \in {<<BA, BAT>>, <<BA, BQ>>, <<BQ, BA>>},
            x1 \in NestKinds, x2 \in NestKinds, x3 \in NestKinds}
    \cup {Report(b, k, third) :
            b \in Boundaries, k \in 1..MaxGroups, third \in {HeadersLeaf, PlainLeaf}}
    \cup {RootLeaf(leaf) : leaf \in LeafKinds}
    \cup {RootMessage("rfc822", 1)}
    \cup {RootMessage("delivery-status", k) : k \in 1..MaxGroups}
    \cup {Attached(b) : b \in {BA, BQ}}

\* files a user may have placed in the output directory
NotesTxt == <<"n", "o", "t", "e", "s", ".", "t", "x", "t">>

UserContent == <<"user", 0>>

NoFiles == [name \in {} |-> UserContent]

(***************************************************************************)
(* State                                                                   *)
(***************************************************************************)
VARIABLES
    tree,       \* the parsed message: node id -> node, 1 is the root
    isdir,      \* whether the output directory exists
    dir,        \* the output directory: file name -> content
    pc,         \* "main", "extract", "walk" or "done"
    stack,      \* pending extract_from_message calls, next call first
    error,      \* the uncaught exception that ended the run, or "none"
    run,        \* number of the current run of main()
    log,        \* the write_message calls of this run, in order
    visited,    \* the nodes extract_from_message was called on, in order
    origin,     \* for each file in dir that write_message created: its origin
    prev,       \* the directory as the previous run left it
    prevError,  \* the error of the previous run
    san,        \* the sanitizer applied on its own: input and results
    shared,     \* the directories two concurrent writers write into
    writers     \* the two concurrent writers: position, path, history

\* the state of one run of the script
main == <<tree, isdir, dir, pc, stack, error, run, log, visited, origin, prev, prevError>>

\* the state of the sanitizer and of the concurrent writers
aux == <<san, shared, writers>>

vars == <<main, aux>>

NoOrigin == [name \in {} |-> [node |-> 0, base |-> None, run |-> 0]]

\* a function restricted to the names in S
Restrict(f, S) == [name \in S |-> f[name]]

(***************************************************************************)
(* write_message and what it calls                                         *)
(***************************************************************************)
\* lines 41-61: the bytes to persist, or the exception decode() raises
get_message_content(id, message) ==
    LET data == IF message.multipart THEN <<"as_bytes", id>> ELSE <<"payload", id>>
    IN  IF message.maintype = "text" /\ message.subtype = "html"
        THEN IF message.utf8
             THEN [err |-> "none", data |-> <<"minified", id>>]
             ELSE [err |-> "UnicodeDecodeError", data |-> data]
        ELSE [err |-> "none", data |-> data]

\* PartName with the first two characters of the sanitized boundary dropped
PartName_Stripped(message, part_boundary) ==
    IF message.attachment
    THEN splitext(message.filename)
    ELSE <<SubSeq(rfc2046_boundary_to_windows(part_boundary), 3, Len(part_boundary)),
           guess_extension(message.maintype, message.subtype)>>

\* PartName in which the extension of the content type wins for attachments
PartName_TypeExtension(message, part_boundary) ==
    IF message.attachment
    THEN <<splitext(message.filename)[1],
           guess_extension(message.maintype, message.subtype)>>
    ELSE <<rfc2046_boundary_to_windows(part_boundary),
           guess_extension(message.maintype, message.subtype)>>

\* lines 64-70: <<filename, extension>> once part_boundary is known to be a str
PartName(message, part_boundary) ==
    IF message.attachment
    THEN splitext(message.filename)
    ELSE <<rfc2046_boundary_to_windows(part_boundary),
           guess_extension(message.maintype, message.subtype)>>

\* line 72: the number of entries the glob pattern matches
file_count(d, filename) == Cardinality({name \in DOMAIN d : MatchesPart(name, filename)})

\* line 73, without the directory prefix
PartPath(count, filename, extension) == Str(count) \o <<".">> \o filename \o Fmt(extension)

\* open(filename, 'wb'), which truncates an existing file
ExclusiveCreate_Overwrite(d, name, data) ==
    [err |-> "none", dir |-> [f \in DOMAIN d \cup {name} |-> IF f = name THEN data ELSE d[f]]]

\* lines 76-77: open(filename, 'xb') and write; an existing path raises
ExclusiveCreate(d, name, data) ==
    IF name \in DOMAIN d
    THEN [err |-> "FileExistsError", dir |-> d]
    ELSE [err |-> "none", dir |-> d @@ (name :> data)]

\* One call of write_message (lines 63-78) on the bundle s of directory,
\* origins, log and pending exception; an exception leaves the directory as
\* it is.  Every call appends one entry to the log.
write_message(s, id, message, part_boundary, r) ==
    LET entry(base, ext, count, name, existed, same, err) ==
            [node |-> id, boundary |-> part_boundary, base |-> base, ext |-> ext,
             index |-> count, name |-> name, existed |-> existed, same |-> same,
             err |-> err]
        fail(e, err) == [s EXCEPT !.log = Append(@, e), !.err = err]
    IN  IF part_boundary = None
        THEN \* line 66: None has no attribute 'replace'
             fail(entry(None, None, 0, None, FALSE, 0, "AttributeError"), "AttributeError")
        ELSE IF message.attachment /\ message.filename = None
        THEN \* line 70: os.path.splitext(None)
             fail(entry(None, None, 0, None, FALSE, 0, "TypeError"), "TypeError")
        ELSE
        LET base == PartName(message, part_boundary)[1]
            ext == PartName(message, part_boundary)[2]
            count == file_count(s.dir, base)
            name == PartPath(count, base, ext)
            content == get_message_content(id, message)
            existed == name \in DOMAIN s.dir
            same == Cardinality({f \in DOMAIN s.dir :
                        f \in DOMAIN s.origin /\ s.origin[f].base = base})
            created == ExclusiveCreate(s.dir, name, content.data)
        IN  IF content.err # "none"
            THEN fail(entry(base, ext, count, name, existed, same, content.err), content.err)
            ELSE IF created.err # "none"
            THEN \* line 76: open(filename, 'xb') on an existing path
                 fail(entry(base, ext, count, name, existed, same, created.err), created.err)
            ELSE [dir |-> created.dir,
                  origin |-> s.origin @@ (name :> [node |-> id, base |-> base, run |-> r]),
                  log |-> Append(s.log, entry(base, ext, count, name, existed, same, "none")),
                  err |-> "none"]

(***************************************************************************)
(* extract_from_message                                                    *)
(***************************************************************************)
\* IsWholeMessage that also takes multipart/* containers as whole messages
IsWholeMessage_OrMultipart(message) == message.maintype \in {"message", "multipart"}

\* line 81: a node of maintype message is written as one file
IsWholeMessage(message) == message.maintype = "message"

\* IsDeliveryStatus without the early return of line 92
IsDeliveryStatus_Never(message) == FALSE

\* IsDeliveryStatus that returns after writing any message/* node
IsDeliveryStatus_Always(message) == TRUE

\* IsDeliveryStatus that also returns after writing an attachment
IsDeliveryStatus_OrAttachment(message) ==
    message.subtype = "delivery-status" \/ message.attachment

\* line 86: a delivery-status node returns after being written
IsDeliveryStatus(message) == message.subtype = "delivery-status"

\* ChildBoundary that keeps an inherited boundary over the node's own
ChildBoundary_Sticky(message, part_boundary) ==
    IF part_boundary # None
    THEN part_boundary
    ELSE message.boundary

\* lines 95-96: the boundary handed to the children of a multipart node
ChildBoundary(message, part_boundary) ==
    IF message.boundary # None /\ message.boundary # <<>>
    THEN message.boundary
    ELSE part_boundary

\* the recursive calls of lines 97-98, in document order
ChildCalls(message, part_boundary) ==
    [i \in 1..Len(message.children) |->
        [node |-> message.children[i], boundary |-> ChildBoundary(message, part_boundary)]]

\* One call extract_from_message(message, path, part_boundary), lines 80-100,
\* with the write_message calls it makes; the recursive calls are queued.
ExtractFromMessage ==
    /\ pc = "walk"
    /\ stack # <<>>
    /\ LET id == Head(stack).node
           part_boundary == Head(stack).boundary
           message == tree[id]
           s0 == [dir |-> dir, origin |-> origin, log |-> log, err |-> "none"]
           s1 == IF IsWholeMessage(message)
                 THEN write_message(s0, id, message, part_boundary, run)
                 ELSE s0
           returned == /\ IsWholeMessage(message)
                       /\ IsDeliveryStatus(message)
           s2 == IF s1.err # "none" \/ returned \/ message.multipart
                 THEN s1
                 ELSE write_message(s1, id, message, part_boundary, run)
           calls == IF ~returned /\ message.multipart
                    THEN ChildCalls(message, part_boundary)
                    ELSE <<>>
       IN  /\ dir' = s2.dir
           /\ origin' = s2.origin
           /\ log' = s2.log
           /\ visited' = Append(visited, id)
           /\ IF s2.err # "none"
              THEN /\ error' = s2.err
                   /\ stack' = <<>>
                   /\ pc' = "done"
              ELSE /\ error' = error
                   /\ stack' = calls \o Tail(stack)
                   /\ pc' = "walk"
    /\ UNCHANGED <<tree, isdir, run, prev, prevError>>
    /\ UNCHANGED aux

\* clean(path), lines 29-39, as main calls it on line 118
Clean ==
    /\ pc = "main"
    /\ isdir' = TRUE
    /\ dir' = Restrict(dir, {name \in DOMAIN dir : ~MatchesGenerated(name)})
    /\ origin' = Restrict(origin, {name \in DOMAIN origin : ~MatchesGenerated(name)})
    /\ pc' = "extract"
    /\ UNCHANGED <<tree, stack, error, run, log, visited, prev, prevError>>
    /\ UNCHANGED aux

\* extract_from_file, lines 103-107: the first call has no part_boundary
ExtractFromFile ==
    /\ pc = "extract"
    /\ stack' = <<[node |-> 1, boundary |-> None]>>
    /\ pc' = "walk"
    /\ UNCHANGED <<tree, isdir, dir, error, run, log, visited, origin, prev, prevError>>
    /\ UNCHANGED aux

\* the outermost extract_from_message call returns and main ends (line 120)
Return ==
    /\ pc = "walk"
    /\ stack = <<>>
    /\ pc' = "done"
    /\ UNCHANGED <<tree, isdir, dir, stack, error, run, log, visited, origin, prev, prevError>>
    /\ UNCHANGED aux

\* the script is started again on the same sample (line 122)
Rerun ==
    /\ pc = "done"
    /\ run < MaxRuns
    /\ run' = run + 1
    /\ prev' = dir
    /\ prevError' = error
    /\ error' = "none"
    /\ log' = <<>>
    /\ visited' = <<>>
    /\ pc' = "main"
    /\ UNCHANGED <<tree, isdir, dir, stack, origin>>
    /\ UNCHANGED aux

\* the sanitizer and the concurrent writers are not in use
SanIdle == [pc |-> "off", b |-> <<>>, once |-> <<>>, twice |-> <<>>]

NoShared == <<NoFiles, NoFiles>>

WriterIdle == [pc |-> "off", dir |-> 1, base |-> <<>>, path |-> <<>>, hist |-> <<>>]

AuxIdle ==
    /\ san = SanIdle
    /\ shared = NoShared
    /\ writers = <<WriterIdle, WriterIdle>>

\* main() about to run on the sample whose parsed message is in trees
Start(trees) ==
    /\ tree \in trees
    /\ \E d \in {<<FALSE, NoFiles>>, <<TRUE, NoFiles>>, <<TRUE, (NotesTxt :> UserContent)>>} :
          /\ isdir = d[1]
          /\ dir = d[2]
    /\ pc = "main"
    /\ stack = <<>>
    /\ error = "none"
    /\ run = 1
    /\ log = <<>>
    /\ visited = <<>>
    /\ origin = NoOrigin
    /\ prev = NoFiles
    /\ prevError = "none"

Init == Start(Trees) /\ AuxIdle

Next ==
    \/ Clean
    \/ ExtractFromFile
    \/ ExtractFromMessage
    \/ Return
    \/ Rerun

Spec == Init /\ [][Next]_vars

(***************************************************************************)
(* extract_from_message called on a tree built with the EmailMessage API   *)
(***************************************************************************)
\* a message/rfc822 node whose payload is a str, so that is_multipart() is
\* False: email.message_from_file never yields one (it parses the body of
\* every message/* part into a list), set_payload(str) does
MessageLeaf == Node("message", "rfc822", FALSE, None, FALSE, None, <<>>, TRUE)

ApiTrees == Trees \cup {Flat(b, MessageLeaf, n) : b \in {BA, BQ}, n \in 1..2}

ApiInit == Start(ApiTrees) /\ AuxIdle

ApiSpec == ApiInit /\ [][Next]_vars

(***************************************************************************)
(* rfc2046_boundary_to_windows on its own                                  *)
(***************************************************************************)
\* the script is not running
MainIdle ==
    /\ tree = RootLeaf(PlainLeaf)
    /\ isdir = FALSE
    /\ dir = NoFiles
    /\ pc = "off"
    /\ stack = <<>>
    /\ error = "none"
    /\ run = 1
    /\ log = <<>>
    /\ visited = <<>>
    /\ origin = NoOrigin
    /\ prev = NoFiles
    /\ prevError = "none"

SanChars == {":", "?", "~", "$", "a"}

SanInputs == UNION {[1..n -> SanChars] : n \in 0..MaxLen}

SanInit ==
    /\ MainIdle
    /\ shared = NoShared
    /\ writers = <<WriterIdle, WriterIdle>>
    /\ \E b \in SanInputs : san = [pc |-> "input", b |-> b, once |-> <<>>, twice |-> <<>>]

\* rfc2046_boundary_to_windows(b)
SanitizeOnce ==
    /\ san.pc = "input"
    /\ san' = [san EXCEPT !.pc = "once", !.once = rfc2046_boundary_to_windows(san.b)]
    /\ UNCHANGED <<main, shared, writers>>

\* rfc2046_boundary_to_windows applied to its own result
SanitizeTwice ==
    /\ san.pc = "once"
    /\ san' = [san EXCEPT !.pc = "twice", !.twice = rfc2046_boundary_to_windows(san.once)]
    /\ UNCHANGED <<main, shared, writers>>

SanNext ==
    \/ SanitizeOnce
    \/ SanitizeTwice

SanSpec == SanInit /\ [][SanNext]_vars

(***************************************************************************)
(* Two writers at lines 72-77 of write_message at the same time            *)
(***************************************************************************)
Writers == {1, 2}

Dirs == {1, 2}

\* base names the writers use: sanitized boundaries
WriterBases == {rfc2046_boundary_to_windows(BA), rfc2046_boundary_to_windows(BQ)}

ConcInit ==
    /\ MainIdle
    /\ san = SanIdle
    /\ shared = NoShared
    /\ \E d1 \in Dirs, d2 \in Dirs, b1 \in WriterBases, b2 \in WriterBases :
          writers = << [pc |-> "count", dir |-> d1, base |-> b1, path |-> <<>>, hist |-> <<>>],
                       [pc |-> "count", dir |-> d2, base |-> b2, path |-> <<>>, hist |-> <<>>] >>

\* lines 72-73: writer w counts the matching entries and computes its path
Count(w) ==
    /\ writers[w].pc = "count"
    /\ writers' = [writers EXCEPT
          ![w].pc = "create",
          ![w].path = PartPath(file_count(shared[writers[w].dir], writers[w].base),
                               writers[w].base, guess_extension("text", "plain"))]
    /\ UNCHANGED <<main, san, shared>>

\* lines 76-77: writer w opens its path with 'xb' and writes; an existing
\* path raises FileExistsError, which ends that writer
Create(w) ==
    /\ writers[w].pc = "create"
    /\ LET d == writers[w].dir
           created == ExclusiveCreate(shared[d], writers[w].path, <<"payload", w>>)
           done == Len(writers[w].hist) + 1
       IN  /\ shared' = [shared EXCEPT ![d] = created.dir]
           /\ writers' = [writers EXCEPT
                 ![w].hist = Append(@, [path |-> writers[w].path, err |-> created.err]),
                 ![w].pc = IF created.err # "none" THEN "failed"
                           ELSE IF done < MaxWrites THEN "count"
                           ELSE "done"]
    /\ UNCHANGED <<main, san>>

ConcNext == \E w \in Writers : Count(w) \/ Create(w)

ConcSpec == ConcInit /\ [][ConcNext]_vars

(***************************************************************************)
(* Definitions the properties are stated with                              *)
(***************************************************************************)
Visited == {visited[i] : i \in DOMAIN visited}

\* the log entries of writes that created a file
Written == {i \in DOMAIN log : log[i].err = "none"}

\* the files of the current run that came from node n
FilesOf(n) == {f \in DOMAIN dir :
                 f \in DOMAIN origin /\ origin[f].node = n /\ origin[f].run = run}

ChildSet(t, n) == {t[n].children[i] : i \in DOMAIN t[n].children}

RECURSIVE Descendants(_, _)
Descendants(t, n) ==
    ChildSet(t, n) \cup UNION {Descendants(t, c) : c \in ChildSet(t, n)}

Parent(t, n) == CHOOSE p \in DOMAIN t : n \in ChildSet(t, p)

Declares(node) == node.multipart /\ node.boundary # None /\ node.boundary # <<>>

RECURSIVE Enclosing(_, _)
\* the boundary of the nearest enclosing multipart node that declares one
Enclosing(t, n) ==
    IF n = 1 THEN None
    ELSE IF Declares(t[Parent(t, n)]) THEN t[Parent(t, n)].boundary
    ELSE Enclosing(t, Parent(t, n))

\* ':' -> '~' and '?' -> '$', character by character
Sanitized(b) ==
    [i \in 1..Len(b) |-> CASE b[i] = ":" -> "~" [] b[i] = "?" -> "$" [] OTHER -> b[i]]

DeliveryStatusNodes(t) ==
    {n \in DOMAIN t : /\ t[n].maintype = "message"
                      /\ t[n].subtype = "delivery-status"
                      /\ Len(t[n].children) >= 1}

\* the nodes a complete walk reaches: those not inside a delivery-status node
Reachable(t) ==
    {n \in DOMAIN t : \A d \in DeliveryStatusNodes(t) : n \notin Descendants(t, d)}

(***************************************************************************)
(* Properties                                                              *)
(***************************************************************************)
\* C1: idempotence.  When the first clean + extract completed without error,
\* the second clean + extract completes without error too and leaves the
\* directory with the same file names and contents.
C1_Idempotent ==
    (run = 2 /\ pc = "done" /\ prevError = "none") => (error = "none" /\ dir = prev)

\* C2: numbering.  In a directory that held no generated part, every write
\* that reaches the exclusive create succeeds, and the k-th write of a base
\* name gets index k-1.
C2_Numbering ==
    run = 1 =>
        \A i \in DOMAIN log :
            log[i].err \in {"none", "FileExistsError"} =>
                /\ log[i].err = "none"
                /\ log[i].index =
                     Cardinality({j \in 1..(i - 1) : j \in Written /\ log[j].base = log[i].base})

\* C3: the allocator is collision-free in a sequential run: the path computed
\* for a write never names an entry that is already in the directory.
C3_CollisionFree == \A i \in DOMAIN log : ~log[i].existed

\* C4: the index given to a part is the number of files already in the
\* directory whose base name is exactly the part's base name, so files of
\* any other base name never change it.
C4_PerBaseName ==
    \A i \in Written : log[i].index = log[i].same

\* C5 as stated: the base name of a part that is not an attachment is the
\* sanitized boundary context without its first two characters.
C5_StripTwo ==
    \A i \in Written :
        ~tree[log[i].node].attachment =>
            log[i].base = SubSeq(Sanitized(log[i].boundary), 3, Len(log[i].boundary))

\* C5 as amended: the file of a part that is not an attachment is named
\* index, '.', the whole sanitized boundary context, then the formatted
\* extension of the content type.
C5_WholeBoundary ==
    \A i \in Written :
        ~tree[log[i].node].attachment =>
            /\ log[i].name = Str(log[i].index) \o <<".">> \o Sanitized(log[i].boundary)
                   \o Fmt(guess_extension(tree[log[i].node].maintype,
                                          tree[log[i].node].subtype))
            /\ log[i].name \in DOMAIN dir

C5_Witness ==
    /\ pc = "done"
    /\ error = "none"
    /\ \E i \in Written :
          /\ ~tree[log[i].node].attachment
          /\ log[i].boundary = BQ
          /\ Sanitized(log[i].boundary) # log[i].boundary

\* C6: render-failure isolation.  When a render fails, every other part the
\* walk is to reach is still visited.
C6_RenderIsolation ==
    (pc = "done" /\ \E i \in DOMAIN log : log[i].err = "UnicodeDecodeError")
        => Reachable(tree) \subseteq Visited

\* C7: after clean, no file that an earlier write_message created remains.
C7_CleanRemovesParts == pc = "extract" => DOMAIN origin = {}

\* C8: a delivery-status node with k >= 1 children is handed to
\* write_message exactly once when it is visited, that write creates exactly
\* one file, the whole node, and none of its descendants is ever visited or
\* written.
C8_DeliveryStatusOnce ==
    \A n \in DeliveryStatusNodes(tree) :
        /\ Descendants(tree, n) \cap Visited = {}
        /\ \A i \in DOMAIN log : log[i].node \notin Descendants(tree, n)
        /\ \A m \in Descendants(tree, n) : FilesOf(m) = {}
        /\ n \in Visited => Cardinality({i \in DOMAIN log : log[i].node = n}) = 1
        /\ \A i \in Written :
              log[i].node = n =>
                  /\ FilesOf(n) = {log[i].name}
                  /\ dir[log[i].name] = <<"as_bytes", n>>

C8_Witness ==
    /\ pc = "done"
    /\ error = "none"
    /\ \E n \in DeliveryStatusNodes(tree) :
          /\ Len(tree[n].children) >= 3
          /\ n \in Visited
          /\ Cardinality(FilesOf(n)) = 1

\* C9: every write receives the boundary of the nearest enclosing multipart
\* node that declares one, and a part that is not an attachment is named
\* from it.
C9_BoundaryInheritance ==
    \A i \in DOMAIN log :
        /\ log[i].boundary = Enclosing(tree, log[i].node)
        /\ (i \in Written /\ ~tree[log[i].node].attachment) =>
              log[i].base = Sanitized(Enclosing(tree, log[i].node))

\* a leaf under a nested boundary, then a leaf of a later subtree that
\* declares no boundary and is named from the root's boundary again
C9_Witness ==
    /\ pc = "done"
    /\ error = "none"
    /\ \E i \in Written, j \in Written :
          /\ i < j
          /\ ~tree[log[i].node].attachment
          /\ ~tree[log[j].node].attachment
          /\ log[i].boundary # tree[1].boundary
          /\ log[j].boundary = tree[1].boundary
          /\ Parent(tree, log[j].node) # 1
          /\ ~Declares(tree[Parent(tree, log[j].node)])

\* C10: the file of an attachment is named index, '.', the declared
\* filename, with its own case and extension.
C10_AttachmentName ==
    \A i \in Written :
        tree[log[i].node].attachment =>
            /\ log[i].name = Str(log[i].index) \o <<".">> \o tree[log[i].node].filename
            /\ log[i].name \in DOMAIN dir
            /\ origin[log[i].name].node = log[i].node

\* two attachments written under different boundary contexts, whose content
\* type maps to another extension than their own
C10_Witness ==
    /\ pc = "done"
    /\ error = "none"
    /\ \E i \in Written, j \in Written :
          /\ tree[log[i].node].attachment
          /\ tree[log[j].node].attachment
          /\ log[i].boundary # log[j].boundary
          /\ log[i].ext # guess_extension(tree[log[i].node].maintype,
                                          tree[log[i].node].subtype)

\* C11: the sanitizer is not on the path of attachment names: a write of an
\* attachment with a declared filename never fails in the sanitizer,
\* whatever the boundary context, None included.
C11_AttachmentBypass ==
    \A i \in DOMAIN log :
        (tree[log[i].node].attachment /\ tree[log[i].node].filename # None)
            => log[i].err # "AttributeError"

\* C12: a write whose computed path already exists fails with the collision
\* error (unless the render failed first) and leaves every entry of the
\* directory as it was.
C12_NoOverwrite ==
    [][(Len(log') = Len(log) + 1 /\ log'[Len(log')].existed) =>
          /\ dir' = dir
          /\ error' \in {"FileExistsError", "UnicodeDecodeError"}
          /\ error' = log'[Len(log')].err
          /\ (tree[log'[Len(log')].node].subtype # "html") => error' = "FileExistsError"]_vars

\* a collision on a file that holds the content of another node
C12_Witness ==
    /\ error = "FileExistsError"
    /\ log # <<>>
    /\ log[Len(log)].existed
    /\ log[Len(log)].name \in DOMAIN dir
    /\ dir[log[Len(log)].name] # <<"payload", log[Len(log)].node>>
    /\ origin[log[Len(log)].name].node # log[Len(log)].node

\* leading digit, '.', anything, '.', anything
GeneratedName(name) ==
    \E i \in 3..Len(name) :
        /\ name[1] \in {"0", "1", "2", "3", "4", "5", "6", "7", "8", "9"}
        /\ name[2] = "."
        /\ name[i] = "."

\* C13: clean leaves the directory existing, creates no entry, and every
\* entry whose name is not a generated-part name is present and unchanged.
C13_CleanFrame ==
    [][(pc = "main" /\ pc' = "extract") =>
          /\ isdir'
          /\ DOMAIN dir' \subseteq DOMAIN dir
          /\ \A name \in DOMAIN dir' : dir'[name] = dir[name]
          /\ \A name \in DOMAIN dir : ~GeneratedName(name) => name \in DOMAIN dir']_vars

\* after a clean that removed parts, the user's file is still there
C13_Witness ==
    /\ pc = "extract"
    /\ run = 2
    /\ isdir
    /\ NotesTxt \in DOMAIN dir
    /\ dir[NotesTxt] = UserContent
    /\ DOMAIN dir # DOMAIN prev

\* multipart nodes of maintype message other than delivery-status
EmbeddedMessages(t) ==
    {n \in DOMAIN t : /\ t[n].maintype = "message"
                      /\ t[n].subtype # "delivery-status"
                      /\ t[n].multipart}

\* the nodes that are written: leaves and nodes of maintype message
Writable(t) == {n \in DOMAIN t : ~t[n].multipart \/ t[n].maintype = "message"}

\* C15: for an embedded message, the whole-message file is created before
\* any of its descendants is visited or written, and a walk that completes
\* leaves both the whole-message file and the files of its parts.
C15_WholeThenParts ==
    \A n \in EmbeddedMessages(tree) :
        /\ \A j \in DOMAIN log :
              log[j].node \in Descendants(tree, n) =>
                  \E i \in 1..(j - 1) : i \in Written /\ log[i].node = n
        /\ (Descendants(tree, n) \cap Visited # {}) => FilesOf(n) # {}
        /\ (pc = "done" /\ error = "none" /\ n \in Visited) =>
              /\ \A f \in FilesOf(n) : dir[f] = <<"as_bytes", n>>
              /\ \A m \in Descendants(tree, n) \cap Writable(tree) \cap Reachable(tree) :
                    FilesOf(m) # {}

C15_Witness ==
    /\ pc = "done"
    /\ error = "none"
    /\ \E n \in EmbeddedMessages(tree) :
          /\ Cardinality(FilesOf(n)) = 1
          /\ \E m \in Descendants(tree, n) : FilesOf(m) # {}

\* C16: a multipart node whose maintype is not message is never handed to
\* write_message; when a walk completes, the nodes that got a file are
\* exactly the visited leaves and the visited nodes of maintype message.
C16_NoFileForMultipart ==
    /\ \A i \in DOMAIN log : log[i].node \in Writable(tree)
    /\ \A n \in DOMAIN tree : n \notin Writable(tree) => FilesOf(n) = {}
    /\ (pc = "done" /\ error = "none") =>
          {log[i].node : i \in Written} = Visited \cap Writable(tree)

C16_Witness ==
    /\ pc = "done"
    /\ error = "none"
    /\ \E n \in Visited : n # 1 /\ n \notin Writable(tree)
    /\ \E n \in Visited : FilesOf(n) # {}

AttachedContainers(t) == {n \in DOMAIN t : t[n].attachment /\ t[n].multipart}

\* C17 as stated: an attachment that is a multipart container gets exactly
\* one file and none of its children is visited.
C17_AttachedWhole ==
    \A n \in AttachedContainers(tree) :
        /\ Descendants(tree, n) \cap Visited = {}
        /\ (n \in Visited /\ error = "none") => Cardinality(FilesOf(n)) = 1

\* C17 as amended: an attachment that is a multipart container (and not a
\* delivery-status node) is walked like any container: all its children are
\* visited, and it has a file of its own, the whole node under its
\* attachment name, only when its maintype is message.
C17_AttachedRecursed ==
    \A n \in AttachedContainers(tree) :
        (pc = "done" /\ error = "none" /\ n \in Visited
                /\ tree[n].subtype # "delivery-status") =>
            /\ ChildSet(tree, n) \subseteq Visited
            /\ Cardinality(FilesOf(n)) = IF tree[n].maintype = "message" THEN 1 ELSE 0
            /\ \A f \in FilesOf(n) :
                  /\ dir[f] = <<"as_bytes", n>>
                  /\ \E i \in Written :
                        /\ log[i].node = n
                        /\ f = Str(log[i].index) \o <<".">> \o tree[n].filename

C17_Witness ==
    /\ pc = "done"
    /\ error = "none"
    /\ \E n \in AttachedContainers(tree), m \in AttachedContainers(tree) :
          /\ tree[n].maintype = "multipart"
          /\ tree[m].maintype = "message"
          /\ FilesOf(n) = {}
          /\ FilesOf(m) # {}
          /\ ChildSet(tree, n) \cup ChildSet(tree, m) \subseteq Visited

\* C19: write_message never receives None as boundary context.
C19_BoundaryNeverNone == \A i \in DOMAIN log : log[i].boundary # None

\* C14: rfc2046_boundary_to_windows replaces every ':' by '~' and every '?'
\* by '$', leaves every other character and the length as they are, gives a
\* result for every string, and applied to its own result changes nothing.
C14_Sanitize ==
    /\ san.pc \in {"once", "twice"} =>
          /\ Len(san.once) = Len(san.b)
          /\ \A i \in 1..Len(san.b) :
                san.once[i] = IF san.b[i] = ":" THEN "~"
                              ELSE IF san.b[i] = "?" THEN "$"
                              ELSE san.b[i]
    /\ san.pc = "twice" => san.twice = san.once

C14_Witness ==
    /\ san.pc = "twice"
    /\ \E i, j, k \in 1..Len(san.b) :
          /\ san.b[i] = ":"
          /\ san.b[j] = "?"
          /\ san.b[k] = "a"
    /\ san.once # san.b

Tried(w) == {writers[w].hist[i] : i \in DOMAIN writers[w].hist}

Created(w) == {h.path : h \in {t \in Tried(w) : t.err = "none"}}

\* C20: of two writers that try to create the same path in the same
\* directory exactly one succeeds and the other gets FileExistsError; every
\* file holds what exactly one writer wrote; writers in different
\* directories never fail and number their files 0, 1, ... on their own.
C20_ExclusiveRace ==
    /\ \A w1 \in Writers, w2 \in Writers :
          (w1 # w2 /\ writers[w1].dir = writers[w2].dir) =>
              /\ \A h1 \in Tried(w1), h2 \in Tried(w2) :
                    h1.path = h2.path =>
                        \/ h1.err = "none" /\ h2.err = "FileExistsError"
                        \/ h1.err = "FileExistsError" /\ h2.err = "none"
              /\ Created(w1) \cap Created(w2) = {}
    /\ \A d \in Dirs : \A f \in DOMAIN shared[d] :
          \E w \in Writers :
              /\ writers[w].dir = d
              /\ f \in Created(w)
              /\ shared[d][f] = <<"payload", w>>
              /\ Cardinality({i \in DOMAIN writers[w].hist :
                                 writers[w].hist[i].path = f}) = 1
    /\ \A w \in Writers :
          (\A v \in Writers \ {w} : writers[v].dir # writers[w].dir) =>
              \A i \in DOMAIN writers[w].hist :
                  /\ writers[w].hist[i].err = "none"
                  /\ writers[w].hist[i].path =
                        PartPath(i - 1, writers[w].base, guess_extension("text", "plain"))

C20_Witness ==
    /\ writers[1].dir = writers[2].dir
    /\ \E h1 \in Tried(1), h2 \in Tried(2) :
          /\ h1.path = h2.path
          /\ h1.err = "none"
          /\ h2.err = "FileExistsError"
    /\ writers[2].pc = "failed"

====
